---- MODULE Spec2Model ----
(***************************************************************************)
(* syncdir: a directory synchronisation tool (cp -r / mirror).             *)
(*                                                                         *)
(* The model follows src/main.go.  Paths are sequences of one-character    *)
(* strings, so that the string operations of the matcher and of the path   *)
(* checks (Base, Match, Contains, HasPrefix, Rel, ToLower) are computed    *)
(* the way the code computes them.  A directory tree is a function from    *)
(* relative paths to entries; the relative path of a tree's root is ".".   *)
(* One action is one invocation of a WalkDir callback together with the    *)
(* part of filepath.WalkDir that runs right after it (the ReadDir of a     *)
(* visited directory).                                                     *)
(***************************************************************************)
EXTENDS Integers, Sequences, FiniteSets, TLC

VARIABLES
    opt,        \* options of the run (main.go:43)
    src,        \* the SOURCE tree
    dst,        \* the DESTINATION tree
    pc,         \* position of the program
    todo,       \* entries the running WalkDir has still to visit, in order
    ret,        \* error returned by syncDir / copyOneFile (NoErr: nil)
    req,        \* the cp request (arguments after flag parsing)
    exitCode,   \* process exit code, -1 while running
    src0,       \* SOURCE as it was when the program started
    dst0,       \* DESTINATION as it was when the program started
    run,        \* number of the syncDir run in progress (1 or 2)
    dst1,       \* DESTINATION as the first run left it
    acts,       \* actions performed (or, in a dry run, reported), in order
    touched,    \* relative DESTINATION paths created, overwritten or deleted
    firstFail,  \* first filesystem operation that failed in this run
    afterFail,  \* TRUE once DESTINATION was changed after firstFail
    injected,   \* TRUE once the environment made an operation fail
    faulty,     \* TRUE when the environment may make operations fail
    probe,      \* a call of one of the pure functions: arguments and result
    visited     \* entries the walks of this run have visited, in order

vars == <<opt, src, dst, pc, todo, ret, req, exitCode, src0, dst0, run, dst1,
          acts, touched, firstFail, afterFail, injected, faulty, probe, visited>>

-----------------------------------------------------------------------------
(* Bounds of the model. *)
\* longest relative path shouldExclude is called on, in segments
MaxSegs == 3
\* longest absolute path isSubpath is called on, in segments
MaxPathSegs == 2

\* modification times of DESTINATION files range over 0..MaxMTime
\* (unit: half a second)
MaxMTime == 3
\* modification times of SOURCE files range over 0..MaxSrcMTime
MaxSrcMTime == 0
\* file contents are numbered 1..MaxContent
MaxContent == 3
\* SOURCE files are drawn from contents 1..MaxSrcContent
MaxSrcContent == 1

(* Program constants. *)
exitOK == 0
exitUsage == 2
exitRuntimeError == 1
\* time.Second in the model's unit of time
Second == 2

-----------------------------------------------------------------------------
(* Strings: sequences of characters. *)

Sep == "/"

\* the characters in use, in byte order
CharOrder == <<"*", ".", "/", "2", "?", "S", "a", "b", "d", "f", "g", "s", "t">>

Rank(c) == CHOOSE i \in 1..Len(CharOrder) : CharOrder[i] = c

\* strings.ToLower, one character
LowerChar(c) == IF c = "S" THEN "s" ELSE c

ToLower(s) == [i \in 1..Len(s) |-> LowerChar(s[i])]

\* strings.EqualFold
EqualFold(a, b) == ToLower(a) = ToLower(b)

HasPrefix(s, p) == Len(p) <= Len(s) /\ SubSeq(s, 1, Len(p)) = p

Contains(s, p) ==
    \E i \in 1..(Len(s) + 1) :
        i + Len(p) - 1 <= Len(s) /\ SubSeq(s, i, i + Len(p) - 1) = p

\* byte-wise string order, as sort.Strings / os.ReadDir use it
StrLess(a, b) ==
    \E i \in 1..(Len(a) + 1) :
        /\ i <= Len(b)
        /\ \A j \in 1..(i - 1) : a[j] = b[j]
        /\ (i = Len(a) + 1 \/ Rank(a[i]) < Rank(b[i]))

\* positions of the separators of s
SepPos(s) == {i \in 1..Len(s) : s[i] = Sep}

LastSep(s) == IF SepPos(s) = {} THEN 0
              ELSE CHOOSE i \in SepPos(s) : \A j \in SepPos(s) : j <= i

\* filepath.Base of a cleaned relative path
Base(s) == SubSeq(s, LastSep(s) + 1, Len(s))

DotPath == <<".">>

\* filepath.Dir of a cleaned relative path ("." when it has one segment)
Dir(s) == IF LastSep(s) = 0 THEN DotPath ELSE SubSeq(s, 1, LastSep(s) - 1)

\* filepath.Match without character classes and escapes: * matches any run
\* of non-separator characters, ? one non-separator character
RECURSIVE Match(_, _)
Match(pat, s) ==
    IF pat = <<>> THEN s = <<>>
    ELSE IF Head(pat) = "*"
    THEN \E k \in 0..Len(s) :
            /\ \A j \in 1..k : s[j] # Sep
            /\ Match(Tail(pat), SubSeq(s, k + 1, Len(s)))
    ELSE /\ s # <<>>
         /\ IF Head(pat) = "?" THEN Head(s) # Sep ELSE Head(pat) = Head(s)
         /\ Match(Tail(pat), Tail(s))

\* variant of ExcludedBy: the pattern is looked for anywhere in the path
ExcludedBySubstring(p, rel) ==
    Match(p, Base(rel)) \/ Contains(rel, p)

\* variant of ExcludedBy: only the last segment and the whole path are
\* compared
ExcludedByBase(p, rel) ==
    Match(p, Base(rel)) \/ p = rel

\* one pattern of shouldExclude's loop
ExcludedBy(p, rel) ==
    \/ Match(p, Base(rel))
    \/ p = rel
    \/ Contains(rel, <<Sep>> \o p \o <<Sep>>)
    \/ HasPrefix(rel, p \o <<Sep>>)

shouldExclude(rel, patterns) ==
    \E i \in 1..Len(patterns) : ExcludedBy(patterns[i], rel)

-----------------------------------------------------------------------------
(* Directory trees. *)

\* the relative paths of the model: an entry b.t, an entry .g in it, and a
\* second top-level entry d, which is a directory when it exists
PathT == <<"b", ".", "t">>
PathTG == <<"b", ".", "t", "/", ".", "g">>
PathD == <<"d">>

RelPaths == {PathT, PathTG, PathD}
AllPaths == RelPaths \cup {DotPath}

\* the exclude patterns of the model: a plain name and a glob
PatG == <<".", "g">>
PatT == <<"*", ".", "t">>

NoEntry == [kind |-> "none", content |-> 0, mtime |-> 0]
DirEnt == [kind |-> "dir", content |-> 0, mtime |-> 0]
FileEnt(c, m) == [kind |-> "file", content |-> c, mtime |-> m]

\* FileInfo.Size(): content 0 is the empty file, two contents share each size
Size(c) == (c + 1) \div 2

\* the clock value a write leaves as modification time
NowTime == MaxMTime

RECURSIVE Ancestors(_)
Ancestors(p) == IF p = DotPath THEN {} ELSE {Dir(p)} \cup Ancestors(Dir(p))

\* q lies in the subtree of p (p included)
InSubtree(p, q) == q = p \/ p \in Ancestors(q)

Exists(tree, p) == tree[p].kind # "none"

WellFormed(tree) ==
    \A p \in AllPaths : Exists(tree, p) =>
        \A a \in Ancestors(p) : tree[a].kind = "dir"

Trees(contents, mtimes) ==
    {t \in [AllPaths -> {NoEntry, DirEnt}
                        \cup {FileEnt(c, m) : c \in contents, m \in mtimes}] :
        WellFormed(t) /\ t[PathD].kind # "file"}

\* the entries of directory p, sorted by name (os.ReadDir)
Children(tree, p) == {q \in RelPaths : Dir(q) = p /\ Exists(tree, q)}

RECURSIVE SortPaths(_)
SortPaths(S) ==
    IF S = {} THEN <<>>
    ELSE LET m == CHOOSE x \in S : \A y \in S \ {x} : StrLess(x, y)
         IN  <<m>> \o SortPaths(S \ {m})

ReadDir(tree, p) == SortPaths(Children(tree, p))

-----------------------------------------------------------------------------
(* Errors and the result of one step. *)

Err(op, p) == [op |-> op, path |-> p]
NoErr == Err("none", <<>>)

Act(op, p) == [op |-> op, path |-> p]

\* the fault the environment may inject into one step: the operation named
\* fails with an I/O error
Faults == {"none", "lstat", "readdir", "info", "stat", "mkdir", "sha1sum",
           "open", "fstat", "openfile", "copy", "chtimes", "remove"}

\* result of a step: the new DESTINATION, the error returned, the actions
\* taken or reported, the paths changed, the operations that failed (in
\* order), and whether DESTINATION was changed after one of them failed
Res(d, e, a, t, f, l) ==
    [dst |-> d, err |-> e, acts |-> a, touched |-> t, fails |-> f, late |-> l]

\* os.Stat / os.Lstat on a path of a tree
StatOf(tree, p, failing) ==
    IF failing THEN "error"
    ELSE IF \E a \in Ancestors(p) : tree[a].kind = "file" THEN "notdir"
    ELSE IF ~Exists(tree, p) THEN "notexist"
    ELSE "ok"

\* the directories os.MkdirAll(p) has to create
Missing(tree, p) == {q \in Ancestors(p) \cup {p} : ~Exists(tree, q)}

MkdirAllFails(tree, p) ==
    \E q \in Ancestors(p) \cup {p} : tree[q].kind = "file"

MkdirAll(tree, p) ==
    [q \in AllPaths |-> IF q \in Ancestors(p) \cup {p} /\ ~Exists(tree, q)
                        THEN DirEnt ELSE tree[q]]

RemoveAll(tree, p) ==
    [q \in AllPaths |-> IF InSubtree(p, q) THEN NoEntry ELSE tree[q]]

Subtree(tree, p) == {q \in AllPaths : InSubtree(p, q) /\ Exists(tree, q)}

\* a step that changed nothing and ends with err (nil, SkipDir or a failure)
Return(d, err) ==
    Res(d, err, <<>>, {}, IF err.op \in {"none", "SkipDir"} THEN <<>> ELSE <<err>>,
        FALSE)

-----------------------------------------------------------------------------
(* The core logic of main.go. *)

absDuration(d) == IF d < 0 THEN -d ELSE d

\* SHA-1 digest of a content (distinct contents have distinct digests)
sha1sum(c) == <<"sha1", c>>

\* variant of sameFile: equal size and close times are trusted even in
\* checksum mode
sameFileTrustsTime(si, di, o) ==
    IF Size(si.content) = Size(di.content)
       /\ absDuration(si.mtime - di.mtime) <= Second
    THEN TRUE
    ELSE IF o.checksum THEN sha1sum(si.content) = sha1sum(di.content)
         ELSE FALSE

\* variant of sameFile: modification times exactly one second apart are
\* not close
sameFileStrict(si, di, o) ==
    IF Size(si.content) = Size(di.content)
       /\ absDuration(si.mtime - di.mtime) < Second
    THEN IF ~o.checksum THEN TRUE
         ELSE sha1sum(si.content) = sha1sum(di.content)
    ELSE IF o.checksum THEN sha1sum(si.content) = sha1sum(di.content)
         ELSE FALSE

\* si, di: the two files (FileInfo and content)
sameFile(si, di, o) ==
    IF Size(si.content) = Size(di.content)
       /\ absDuration(si.mtime - di.mtime) <= Second
    THEN IF ~o.checksum THEN TRUE
         ELSE sha1sum(si.content) = sha1sum(di.content)
    ELSE IF o.checksum THEN sha1sum(si.content) = sha1sum(di.content)
         ELSE FALSE

\* ensureDir in a dry run, st: what os.Stat(path) said
ensureDirDry(d, p, st) ==
    Res(d, NoErr, IF st = "notexist" THEN <<Act("MKDIR", p)>> ELSE <<>>, {},
        IF st \in {"error", "notdir"} THEN <<Err("stat", p)>> ELSE <<>>, FALSE)

\* the MKDIR action of an os.MkdirAll that had to create the directories made
MkActs(made, p) == IF made # {} THEN <<Act("MKDIR", p)>> ELSE <<>>

\* variant of ensureDir: the directory is looked for and never created
ensureDirNever(d, p, o, fault) ==
    ensureDirDry(d, p, StatOf(d, p, fault = "stat"))

ensureDir(d, p, o, fault) ==
    IF o.dryRun THEN ensureDirDry(d, p, StatOf(d, p, fault = "stat"))
    ELSE IF fault = "mkdir" \/ MkdirAllFails(d, p) THEN Return(d, Err("mkdir", p))
    ELSE Res(MkdirAll(d, p), NoErr, MkActs(Missing(d, p), p), Missing(d, p),
             <<>>, FALSE)

\* copyOneFile stops with err before the destination file is opened
CopyStopped(d1, made, p, err) ==
    Res(d1, err, MkActs(made, Dir(p)), made, <<err>>, FALSE)

\* the destination file is opened (created or truncated) and is left as e
CopyWrote(d1, made, p, e, err) ==
    Res([d1 EXCEPT ![p] = e], err, MkActs(made, Dir(p)) \o <<Act("COPY", p)>>,
        made \cup {p}, IF err = NoErr THEN <<>> ELSE <<err>>, FALSE)

\* variant of copyData: the modification time is not carried over
copyDataNoChtimes(s, d1, made, p, fault) ==
    IF fault = "open" THEN CopyStopped(d1, made, p, Err("open", p))
    ELSE IF fault = "fstat" THEN CopyStopped(d1, made, p, Err("fstat", p))
    ELSE IF fault = "openfile" \/ d1[p].kind = "dir"
    THEN CopyStopped(d1, made, p, Err("openfile", p))
    ELSE IF fault = "copy"
    THEN CopyWrote(d1, made, p, FileEnt(0, NowTime), Err("copy", p))
    ELSE CopyWrote(d1, made, p, FileEnt(s[p].content, NowTime), NoErr)

\* variant of copyData: the buffered content is never written out
copyDataNoFlush(s, d1, made, p, fault) ==
    IF fault = "open" THEN CopyStopped(d1, made, p, Err("open", p))
    ELSE IF fault = "fstat" THEN CopyStopped(d1, made, p, Err("fstat", p))
    ELSE IF fault = "openfile" \/ d1[p].kind = "dir"
    THEN CopyStopped(d1, made, p, Err("openfile", p))
    ELSE IF fault = "copy"
    THEN CopyWrote(d1, made, p, FileEnt(0, NowTime), Err("copy", p))
    ELSE IF fault = "chtimes"
    THEN CopyWrote(d1, made, p, FileEnt(0, NowTime), Err("chtimes", p))
    ELSE CopyWrote(d1, made, p, FileEnt(0, s[p].mtime), NoErr)

\* copyOneFile after the os.MkdirAll of the parent directory
\* (main.go:351-380); d1: DESTINATION after it, made: what it created
copyData(s, d1, made, p, fault) ==
    IF fault = "open" THEN CopyStopped(d1, made, p, Err("open", p))
    ELSE IF fault = "fstat" THEN CopyStopped(d1, made, p, Err("fstat", p))
    ELSE IF fault = "openfile" \/ d1[p].kind = "dir"
    THEN CopyStopped(d1, made, p, Err("openfile", p))
    ELSE IF fault = "copy"
    THEN CopyWrote(d1, made, p, FileEnt(0, NowTime), Err("copy", p))
    ELSE IF fault = "chtimes"
    THEN CopyWrote(d1, made, p, FileEnt(s[p].content, NowTime), Err("chtimes", p))
    ELSE CopyWrote(d1, made, p, FileEnt(s[p].content, s[p].mtime), NoErr)

\* variant of copyOneFile: the dry-run flag is not looked at
copyOneFileNoDry(s, d, p, o, fault) ==
    IF p = DotPath THEN copyData(s, d, {}, p, fault)
    ELSE IF fault = "mkdir" \/ MkdirAllFails(d, Dir(p))
    THEN Return(d, Err("mkdir", Dir(p)))
    ELSE copyData(s, MkdirAll(d, Dir(p)), Missing(d, Dir(p)), p, fault)

\* the parent of the tree's root lies outside the tree and exists
copyOneFile(s, d, p, o, fault) ==
    IF o.dryRun THEN Res(d, NoErr, <<Act("COPY", p)>>, {}, <<>>, FALSE)
    ELSE IF p = DotPath THEN copyData(s, d, {}, p, fault)
    ELSE IF fault = "mkdir" \/ MkdirAllFails(d, Dir(p))
    THEN Return(d, Err("mkdir", Dir(p)))
    ELSE copyData(s, MkdirAll(d, Dir(p)), Missing(d, Dir(p)), p, fault)

\* the copy syncFile makes when os.Stat of the destination failed; pre:
\* that failure, when it is not "does not exist"
CopyAfterStat(c, pre) ==
    Res(c.dst, c.err, c.acts, c.touched, pre \o c.fails,
        pre # <<>> /\ c.touched # {})

\* variant of syncFileOn: an existing destination file is never replaced
syncFileOnKeeps(s, d, p, o, fault, st) ==
    IF st = "ok" /\ d[p].kind = "file" THEN Return(d, NoErr)
    ELSE CopyAfterStat(copyOneFile(s, d, p, o, fault),
                       IF st \in {"error", "notdir"} THEN <<Err("stat", p)>>
                       ELSE <<>>)

\* syncFile, st: what os.Stat(dstPath) said
syncFileOn(s, d, p, o, fault, st) ==
    IF st = "ok" /\ d[p].kind = "file"
    THEN IF o.checksum /\ fault = "sha1sum" THEN Return(d, Err("sha1sum", p))
         ELSE IF sameFile(s[p], d[p], o) THEN Return(d, NoErr)
         ELSE copyOneFile(s, d, p, o, fault)
    ELSE CopyAfterStat(copyOneFile(s, d, p, o, fault),
                       IF st \in {"error", "notdir"} THEN <<Err("stat", p)>>
                       ELSE <<>>)

syncFile(s, d, p, o, fault) ==
    syncFileOn(s, d, p, o, fault, StatOf(d, p, fault = "stat"))

\* variant of removePath: the removal is reported and not made
removePathReports(d, p, isDir, o, fault) ==
    Res(d, NoErr, <<Act(IF isDir THEN "RMDIR" ELSE "DEL", p)>>, {}, <<>>, FALSE)

removePath(d, p, isDir, o, fault) ==
    IF o.dryRun
    THEN Res(d, NoErr, <<Act(IF isDir THEN "RMDIR" ELSE "DEL", p)>>, {}, <<>>, FALSE)
    ELSE IF fault = "remove" THEN Return(d, Err("remove", p))
    ELSE IF isDir
    THEN Res(RemoveAll(d, p), NoErr, <<Act("RMDIR", p)>>, Subtree(d, p), <<>>, FALSE)
    ELSE Res([d EXCEPT ![p] = NoEntry], NoErr, <<Act("DEL", p)>>, {p}, <<>>, FALSE)

\* fs.SkipDir, the error value a callback returns to cut a subtree
SkipDir == Err("SkipDir", <<>>)

\* the callback of the forward pass (main.go:245-272)
forwardFn(s, d, p, o, fault, walkErr) ==
    IF walkErr # NoErr THEN Res(d, walkErr, <<>>, {}, <<>>, FALSE)
    ELSE IF p = DotPath THEN ensureDir(d, DotPath, o, fault)
    ELSE IF shouldExclude(p, o.excludes)
    THEN Return(d, IF s[p].kind = "dir" THEN SkipDir ELSE NoErr)
    ELSE IF fault = "info" THEN Return(d, Err("info", p))
    ELSE IF s[p].kind = "dir" THEN ensureDir(d, p, o, fault)
    ELSE syncFile(s, d, p, o, fault)

\* variant of mirrorProbe: every failure of os.Lstat counts as "does not
\* exist"
mirrorProbeAnyError(d, p, o, fault, st) ==
    IF st = "ok" THEN Return(d, NoErr)
    ELSE removePath(d, p, d[p].kind = "dir", o, fault)

\* the mirror callback once the entry is known not to be excluded; st: what
\* os.Lstat(srcPath) said (main.go:296-307)
mirrorProbe(d, p, o, fault, st) ==
    IF st = "ok" THEN Return(d, NoErr)
    ELSE IF st = "notexist" THEN removePath(d, p, d[p].kind = "dir", o, fault)
    ELSE Return(d, Err("lstat", p))

\* variant of mirrorFn: an entry whose kind differs from the SOURCE entry's
\* counts as absent from SOURCE
mirrorFnKinds(s, d, p, o, fault, walkErr) ==
    IF walkErr # NoErr THEN Res(d, walkErr, <<>>, {}, <<>>, FALSE)
    ELSE IF p = DotPath THEN Return(d, NoErr)
    ELSE IF shouldExclude(p, o.excludes)
    THEN Return(d, IF d[p].kind = "dir" THEN SkipDir ELSE NoErr)
    ELSE mirrorProbe(d, p, o, fault,
                     IF s[p].kind # d[p].kind THEN "notexist"
                     ELSE StatOf(s, p, fault = "lstat"))

\* the callback of the mirror pass (main.go:279-308)
mirrorFn(s, d, p, o, fault, walkErr) ==
    IF walkErr # NoErr THEN Res(d, walkErr, <<>>, {}, <<>>, FALSE)
    ELSE IF p = DotPath THEN Return(d, NoErr)
    ELSE IF shouldExclude(p, o.excludes)
    THEN Return(d, IF d[p].kind = "dir" THEN SkipDir ELSE NoErr)
    ELSE mirrorProbe(d, p, o, fault, StatOf(s, p, fault = "lstat"))

\* the callback of the pass
WalkFn(pass, s, d, p, o, fault, walkErr) ==
    IF pass = "forward" THEN forwardFn(s, d, p, o, fault, walkErr)
    ELSE mirrorFn(s, d, p, o, fault, walkErr)

\* the tree the pass walks
Walked(pass, s, d) == IF pass = "forward" THEN s ELSE d

\* WalkDir's second call of the callback, reporting the failure e of
\* ReadDir after the first call returned r; r2: what the second call returned
WalkSecondCall(r, e, r2) ==
    Res(r.dst, r2.err, r.acts, r.touched, r.fails \o <<e>>, r.late)

\* filepath.WalkDir after the first call of the callback returned r
WalkAfterFn(pass, s, p, o, fault, isDir, r) ==
    IF r.err = SkipDir /\ isDir
    THEN [res |-> Return(r.dst, NoErr), push |-> <<>>]
    ELSE IF r.err # NoErr \/ ~isDir THEN [res |-> r, push |-> <<>>]
    ELSE IF fault = "readdir" \/ Walked(pass, s, r.dst)[p].kind # "dir"
    THEN [res |-> WalkSecondCall(r, Err("readdir", p),
                      WalkFn(pass, s, r.dst, p, o, fault, Err("readdir", p))),
          push |-> <<>>]
    ELSE [res |-> r, push |-> ReadDir(Walked(pass, s, r.dst), p)]

\* the root could not be Lstat'ed: WalkDir calls the callback with the error
WalkRootFailed(d, e, r) ==
    [res |-> Res(d, r.err, <<>>, {}, <<e>>, FALSE), push |-> <<>>]

\* filepath.WalkDir's handling of one entry p: Lstat of the root, the call
\* of the callback, and for a directory the ReadDir that follows it (with a
\* second call of the callback when ReadDir fails).  push: the entries to
\* visit next, before the rest of the walk.
WalkDirVisit(pass, s, d, p, o, fault) ==
    IF p = DotPath /\ (fault = "lstat" \/ ~Exists(Walked(pass, s, d), DotPath))
    THEN WalkRootFailed(d, Err("lstat", DotPath),
                        WalkFn(pass, s, d, p, o, fault, Err("lstat", DotPath)))
    ELSE WalkAfterFn(pass, s, p, o, fault, Walked(pass, s, d)[p].kind = "dir",
                     WalkFn(pass, s, d, p, o, fault, NoErr))

-----------------------------------------------------------------------------
(* Path checks of runCp. *)

\* the segments of a path: the pieces between separators (a rooted path
\* starts with an empty segment)
RECURSIVE Split(_)
Split(s) ==
    IF SepPos(s) = {} THEN <<s>>
    ELSE LET i == CHOOSE k \in SepPos(s) : \A j \in SepPos(s) : k <= j
         IN  <<SubSeq(s, 1, i - 1)>> \o Split(SubSeq(s, i + 1, Len(s)))

RECURSIVE JoinSegs(_)
JoinSegs(segs) ==
    IF segs = <<>> THEN <<>>
    ELSE IF Len(segs) = 1 THEN segs[1]
    ELSE segs[1] \o <<Sep>> \o JoinSegs(Tail(segs))

DotDot == <<".", ".">>

IsRooted(s) == s # <<>> /\ s[1] = Sep

\* filepath.Clean, segment by segment: empty segments and "." are dropped,
\* ".." removes the segment before it (at the root it is dropped)
RECURSIVE CleanSegs(_, _, _)
CleanSegs(segs, out, rooted) ==
    IF segs = <<>> THEN out
    ELSE IF Head(segs) = <<>> \/ Head(segs) = DotPath
    THEN CleanSegs(Tail(segs), out, rooted)
    ELSE IF Head(segs) # DotDot
    THEN CleanSegs(Tail(segs), Append(out, Head(segs)), rooted)
    ELSE IF out # <<>> /\ out[Len(out)] # DotDot
    THEN CleanSegs(Tail(segs), SubSeq(out, 1, Len(out) - 1), rooted)
    ELSE IF rooted THEN CleanSegs(Tail(segs), out, rooted)
    ELSE CleanSegs(Tail(segs), Append(out, DotDot), rooted)

CleanJoin(rooted, body) ==
    IF rooted THEN <<Sep>> \o body
    ELSE IF body = <<>> THEN DotPath ELSE body

Clean(s) == CleanJoin(IsRooted(s), JoinSegs(CleanSegs(Split(s), <<>>, IsRooted(s))))

\* segments as filepath.Rel walks them
RelSegs(s) == IF s = DotPath THEN <<>>
              ELSE IF s = <<Sep>> THEN <<<<>>>> ELSE Split(s)

\* length of the longest common prefix of two segment lists
CommonLen(a, b) ==
    CHOOSE k \in 0..Len(a) :
        /\ k <= Len(b)
        /\ \A i \in 1..k : a[i] = b[i]
        /\ (k = Len(a) \/ k = Len(b) \/ a[k + 1] # b[k + 1])

\* the result of filepath.Rel: as many ".." as base has segments left after
\* the common prefix of length k, then the rest of the target
RelFrom(bs, ts, k) ==
    IF k < Len(bs) /\ bs[k + 1] = DotDot THEN [ok |-> FALSE, path |-> <<>>]
    ELSE [ok |-> TRUE,
          path |-> JoinSegs([i \in 1..(Len(bs) - k) |-> DotDot]
                            \o SubSeq(ts, k + 1, Len(ts)))]

RelClean(base, targ) ==
    IF targ = base THEN [ok |-> TRUE, path |-> DotPath]
    ELSE IF IsRooted(base) # IsRooted(targ) THEN [ok |-> FALSE, path |-> <<>>]
    ELSE RelFrom(RelSegs(base), RelSegs(targ),
                 CommonLen(RelSegs(base), RelSegs(targ)))

\* filepath.Rel(basepath, targpath): [ok, path]
Rel(basepath, targpath) == RelClean(Clean(basepath), Clean(targpath))

isSubpathOf(c, p, rel) ==
    IF c = p THEN FALSE
    ELSE IF ~rel.ok THEN FALSE
    ELSE rel.path # DotDot /\ ~HasPrefix(rel.path, DotDot \o <<Sep>>)

isSubpathLower(c, p) == isSubpathOf(c, p, Rel(p, c))

\* variant of isSubpath: the parent's text is a prefix of the child's
isSubpathByPrefix(child, parent) ==
    /\ ToLower(Clean(child)) # ToLower(Clean(parent))
    /\ HasPrefix(ToLower(Clean(child)), ToLower(Clean(parent)))

\* variant of isSubpath: the paths are compared as they are written
isSubpathCaseSensitive(child, parent) ==
    isSubpathLower(Clean(child), Clean(parent))

isSubpath(child, parent) ==
    isSubpathLower(ToLower(Clean(child)), ToLower(Clean(parent)))

samePath(a, b) == EqualFold(Clean(a), Clean(b))

-----------------------------------------------------------------------------
(* State machine. *)

\* the exclude lists of the model
ExcludeLists == {<<>>, <<PatG>>, <<PatT>>}

Options ==
    [recursive : BOOLEAN, mirror : BOOLEAN, dryRun : BOOLEAN,
     checksum : BOOLEAN, excludes : ExcludeLists]

SrcTrees == Trees(1..MaxSrcContent, 0..MaxSrcMTime)
DstTrees == Trees(1..MaxContent, 0..MaxMTime)

\* the absolute paths a cp request may name
CpPaths == { <<"/", "s">>, <<"/", "S", "/", "d">>, <<"/", "s", "2">>,
             <<"/", "d", "/", ".", ".", "/", "s">> }

NoReq == [parseErr |-> FALSE, wantHelp |-> FALSE, nrest |-> 0,
          absSrc |-> <<>>, absDst |-> <<>>]

Running == 0 - 1

NoProbe == [fn |-> "none", done |-> FALSE]

\* the variables that only record what happened
InitHistory ==
    /\ ret = NoErr
    /\ req = NoReq
    /\ exitCode = Running
    /\ src0 = src
    /\ dst0 = dst
    /\ run = 1
    /\ dst1 = dst
    /\ acts = <<>>
    /\ touched = {}
    /\ firstFail = NoErr
    /\ afterFail = FALSE
    /\ injected = FALSE
    /\ visited = <<>>
    /\ probe = NoProbe

\* the trees syncDir is called on: SOURCE is a directory, DESTINATION a
\* directory or absent
SrcDirs == {t \in SrcTrees : t[DotPath].kind = "dir"}
DstDirs == {t \in DstTrees : t[DotPath].kind # "file"}
DstDirsNarrow == {t \in SrcTrees : t[DotPath].kind # "file"}

\* syncDir called on two directories (as the tests call it), on a file
\* system whose operations fail only for the state of the trees
Init ==
    /\ dst \in DstDirs
    /\ src \in SrcDirs
    /\ opt \in {o \in Options : o.recursive}
    /\ pc = "forward"
    /\ todo = <<DotPath>>
    /\ faulty = FALSE
    /\ InitHistory

\* the same call on a file system that may also fail any operation with an
\* I/O error
InitFault ==
    /\ opt \in {o \in Options : o.recursive}
    /\ src \in SrcDirs
    /\ dst \in DstDirsNarrow
    /\ pc = "forward"
    /\ todo = <<DotPath>>
    /\ faulty = TRUE
    /\ InitHistory

\* syncDir comparing files by size and time, on a file system that may fail
\* any operation with an I/O error
InitLive ==
    /\ opt \in {o \in Options : o.recursive /\ ~o.checksum}
    /\ src \in SrcDirs
    /\ dst \in DstDirsNarrow
    /\ pc = "forward"
    /\ todo = <<DotPath>>
    /\ faulty = TRUE
    /\ InitHistory

\* the cp subcommand, before it has looked at its arguments
InitCp ==
    /\ opt \in {o \in Options : o.excludes = <<>>}
    /\ src \in SrcTrees
    /\ dst \in SrcTrees
    /\ pc = "parse"
    /\ todo = <<>>
    /\ faulty = FALSE
    /\ InitHistory

\* the files sameFile is called on: every content (the empty one included)
\* with every modification time
Files == {FileEnt(c, m) : c \in 0..MaxContent, m \in 0..MaxMTime}

EmptyTree == [p \in AllPaths |-> NoEntry]

\* a call of sameFile on two existing files
InitCmp ==
    /\ opt \in {o \in Options : o.recursive /\ ~o.mirror /\ ~o.dryRun
                                 /\ o.excludes = <<>>}
    /\ src = EmptyTree
    /\ dst = EmptyTree
    /\ pc = "call"
    /\ todo = <<>>
    /\ faulty = FALSE
    /\ ret = NoErr
    /\ req = NoReq
    /\ exitCode = Running
    /\ src0 = src
    /\ dst0 = dst
    /\ run = 1
    /\ dst1 = dst
    /\ acts = <<>>
    /\ touched = {}
    /\ firstFail = NoErr
    /\ afterFail = FALSE
    /\ injected = FALSE
    /\ visited = <<>>
    /\ probe \in [fn : {"sameFile"}, done : {FALSE}, si : Files, di : Files,
                   same : {FALSE}]

FaultChoices == IF faulty THEN Faults ELSE {"none"}

\* variant of Advance: the mirror pass starts as soon as the copy pass has
\* visited one entry
AdvanceEarly(r, fired, rest, next) ==
    /\ dst' = r.dst
    /\ acts' = acts \o r.acts
    /\ touched' = touched \cup r.touched
    /\ firstFail' = IF firstFail = NoErr /\ r.fails # <<>>
                    THEN r.fails[1] ELSE firstFail
    /\ afterFail' = (afterFail \/ r.late
                     \/ (firstFail # NoErr /\ r.touched # {}))
    /\ injected' = (injected \/ fired)
    /\ ret' = r.err
    /\ IF r.err # NoErr THEN pc' = "done" /\ todo' = <<>>
       ELSE IF next = "mirror" THEN pc' = "mirror" /\ todo' = <<DotPath>>
       ELSE IF rest # <<>> THEN pc' = pc /\ todo' = rest
       ELSE pc' = "done" /\ todo' = <<>>
    /\ UNCHANGED <<opt, src, req, exitCode, src0, dst0, run, dst1, faulty, probe>>

\* the bookkeeping of a step's result r; rest: the entries still to visit,
\* next: the position to take when none is left and no error occurred
Advance(r, fired, rest, next) ==
    /\ dst' = r.dst
    /\ acts' = acts \o r.acts
    /\ touched' = touched \cup r.touched
    /\ firstFail' = IF firstFail = NoErr /\ r.fails # <<>>
                    THEN r.fails[1] ELSE firstFail
    /\ afterFail' = (afterFail \/ r.late
                     \/ (firstFail # NoErr /\ r.touched # {}))
    /\ injected' = (injected \/ fired)
    /\ ret' = r.err
    /\ IF r.err # NoErr THEN pc' = "done" /\ todo' = <<>>
       ELSE IF rest # <<>> THEN pc' = pc /\ todo' = rest
       ELSE IF next = "mirror" THEN pc' = "mirror" /\ todo' = <<DotPath>>
       ELSE pc' = "done" /\ todo' = <<>>
    /\ UNCHANGED <<opt, src, req, exitCode, src0, dst0, run, dst1, faulty, probe>>

\* variant of WalkAdvance: the walk keeps the entry it has just visited at
\* the head of the entries still to visit
WalkAdvanceKeepsHead(v, n, next) ==
    /\ Advance(v.res, v # n, v.push \o todo, next)
    /\ visited' = Append(visited, [pass |-> pc, path |-> Head(todo)])

\* a step of a walk: v is WalkDirVisit's result, n its result without fault
WalkAdvance(v, n, next) ==
    /\ Advance(v.res, v # n, v.push \o Tail(todo), next)
    /\ visited' = Append(visited, [pass |-> pc, path |-> Head(todo)])

\* variant of ForwardStep: the mirror pass follows whatever the options say
ForwardStepThenMirror ==
    /\ pc = "forward"
    /\ \E fault \in FaultChoices :
         WalkAdvance(WalkDirVisit("forward", src, dst, Head(todo), opt, fault),
                     WalkDirVisit("forward", src, dst, Head(todo), opt, "none"),
                     "mirror")

\* one entry of the forward pass
ForwardStep ==
    /\ pc = "forward"
    /\ \E fault \in FaultChoices :
         WalkAdvance(WalkDirVisit("forward", src, dst, Head(todo), opt, fault),
                     WalkDirVisit("forward", src, dst, Head(todo), opt, "none"),
                     IF opt.mirror THEN "mirror" ELSE "done")

\* one entry of the mirror pass
MirrorStep ==
    /\ pc = "mirror"
    /\ \E fault \in FaultChoices :
         WalkAdvance(WalkDirVisit("mirror", src, dst, Head(todo), opt, fault),
                     WalkDirVisit("mirror", src, dst, Head(todo), opt, "none"),
                     "done")

\* runCp's call of copyOneFile for a SOURCE that is a file (main.go:226)
CopyFileStep ==
    /\ pc = "copyfile"
    /\ \E fault \in FaultChoices :
         Advance(copyOneFile(src, dst, DotPath, opt, fault),
                 copyOneFile(src, dst, DotPath, opt, fault)
                     # copyOneFile(src, dst, DotPath, opt, "none"),
                 <<>>, "done")
    /\ UNCHANGED visited

\* a second run of syncDir after a successful first one, nothing changed in
\* between
Rerun ==
    /\ pc = "done"
    /\ ret = NoErr
    /\ run = 1
    /\ exitCode = Running
    /\ run' = 2
    /\ dst1' = dst
    /\ pc' = "forward"
    /\ todo' = <<DotPath>>
    /\ acts' = <<>>
    /\ touched' = {}
    /\ firstFail' = NoErr
    /\ afterFail' = FALSE
    /\ visited' = <<>>
    /\ UNCHANGED <<opt, src, dst, ret, req, exitCode, src0, dst0, injected, faulty, probe>>

\* variant of Exit: every exit reports a usage error
ExitAsUsage(code) ==
    /\ exitCode' = exitUsage
    /\ pc' = "exited"

\* exitFn(code): the process ends
Exit(code) ==
    /\ exitCode' = code
    /\ pc' = "exited"

\* what flag parsing may yield: a parse error, --help, and the number of
\* arguments left
Args == [parseErr : BOOLEAN, wantHelp : BOOLEAN, nrest : 1..3]

\* runCp up to the argument count check (main.go:161-194); the arguments
\* are read here
CpParse ==
    /\ pc = "parse"
    /\ \E a \in Args :
         /\ req' = [req EXCEPT !.parseErr = a.parseErr, !.wantHelp = a.wantHelp,
                               !.nrest = a.nrest]
         /\ IF a.parseErr THEN Exit(exitUsage)
            ELSE IF a.wantHelp THEN Exit(exitUsage)
            ELSE IF a.nrest # 2 THEN Exit(exitUsage)
            ELSE pc' = "stat" /\ exitCode' = exitCode
    /\ UNCHANGED <<opt, src, dst, todo, ret, src0, dst0, run, dst1, acts,
                   touched, firstFail, afterFail, injected, faulty, probe,
                   visited>>

\* os.Stat(src) and the -r check (main.go:197-206)
CpStat ==
    /\ pc = "stat"
    /\ \E st \in {StatOf(src, DotPath, fault = "stat") : fault \in FaultChoices} :
         /\ injected' = (injected \/ st = "error")
         /\ IF st = "notexist" THEN Exit(exitUsage)
            ELSE IF st # "ok" THEN Exit(exitRuntimeError)
            ELSE IF src[DotPath].kind = "dir" /\ ~opt.recursive
            THEN Exit(exitUsage)
            ELSE pc' = "validate" /\ exitCode' = exitCode
    /\ UNCHANGED <<opt, src, dst, todo, ret, req, src0, dst0, run, dst1, acts,
                   touched, firstFail, afterFail, faulty, probe, visited>>

\* the path checks and the dispatch to the engine (main.go:208-229); the
\* two paths are read here
CpValidate ==
    /\ pc = "validate"
    /\ \E a \in CpPaths, b \in CpPaths :
         /\ req' = [req EXCEPT !.absSrc = a, !.absDst = b]
         /\ IF samePath(a, b) THEN Exit(exitUsage) /\ todo' = todo
            ELSE IF isSubpath(b, a) THEN Exit(exitUsage) /\ todo' = todo
            ELSE IF isSubpath(a, b) THEN Exit(exitUsage) /\ todo' = todo
            ELSE /\ exitCode' = exitCode
                 /\ IF src[DotPath].kind = "dir"
                    THEN pc' = "forward" /\ todo' = <<DotPath>>
                    ELSE pc' = "copyfile" /\ todo' = todo
    /\ UNCHANGED <<opt, src, dst, ret, src0, dst0, run, dst1, acts,
                   touched, firstFail, afterFail, injected, faulty, probe,
                   visited>>

\* the engine returned to runCp: dieRuntime on an error, otherwise main's
\* exitFn(exitOK) (main.go:221-233, 136-137)
CpReturn ==
    /\ pc = "done"
    /\ Exit(IF ret # NoErr THEN exitRuntimeError ELSE exitOK)
    /\ UNCHANGED <<opt, src, dst, todo, ret, req, src0, dst0, run, dst1, acts,
                   touched, firstFail, afterFail, injected, faulty, probe,
                   visited>>

\* the call of sameFile returns
CallSameFile ==
    /\ pc = "call"
    /\ probe.fn = "sameFile"
    /\ probe' = [probe EXCEPT !.done = TRUE,
                              !.same = sameFile(probe.si, probe.di, opt)]
    /\ pc' = "returned"
    /\ UNCHANGED <<opt, src, dst, todo, ret, req, exitCode, src0, dst0, run, dst1,
                   acts, touched, firstFail, afterFail, injected, faulty, visited>>

\* a call of one of the pure functions: no tree is walked
InitCall ==
    /\ src = EmptyTree
    /\ dst = EmptyTree
    /\ pc = "call"
    /\ todo = <<>>
    /\ faulty = FALSE
    /\ ret = NoErr
    /\ req = NoReq
    /\ exitCode = Running
    /\ src0 = src
    /\ dst0 = dst
    /\ run = 1
    /\ dst1 = dst
    /\ acts = <<>>
    /\ touched = {}
    /\ firstFail = NoErr
    /\ afterFail = FALSE
    /\ injected = FALSE
    /\ visited = <<>>

\* names of entries: ".g", ".gi", "x", "b.t"
ExclNames == {<<".", "g">>, <<".", "g", "i">>, <<"x">>, <<"b", ".", "t">>}

\* relative paths as the walks build them: lists of one to MaxSegs names
ExclSegs == UNION {[1..n -> ExclNames] : n \in 1..MaxSegs}

\* exclude patterns: two plain names, a glob, a path of two segments
PatX == <<"x">>
PatXG == <<"x", "/", ".", "g">>
ExclPatterns == {PatG, PatX, PatT, PatXG}

\* the walk reaches a path through its ancestors: shouldExclude is called
\* on each prefix of the path in turn (main.go:253, 287)
InitExcl ==
    /\ \E pat \in ExclPatterns :
          opt = [recursive |-> TRUE, mirror |-> FALSE, dryRun |-> FALSE,
                 checksum |-> FALSE, excludes |-> <<pat>>]
    /\ probe \in [fn : {"shouldExclude"}, done : {FALSE}, segs : ExclSegs,
                   excl : {<<>>}]
    /\ InitCall

\* the calls of shouldExclude return: excl[k] is the verdict on the first
\* k segments of the path
CallShouldExclude ==
    /\ pc = "call"
    /\ probe.fn = "shouldExclude"
    /\ probe' = [probe EXCEPT
                    !.done = TRUE,
                    !.excl = [k \in 1..Len(probe.segs) |->
                                shouldExclude(JoinSegs(SubSeq(probe.segs, 1, k)),
                                              opt.excludes)]]
    /\ pc' = "returned"
    /\ UNCHANGED <<opt, src, dst, todo, ret, req, exitCode, src0, dst0, run, dst1,
                   acts, touched, firstFail, afterFail, injected, faulty, visited>>

NextExcl == CallShouldExclude

\* a tree that is one entry: the file or directory a path names
OneEntry(e) == [p \in AllPaths |-> IF p = DotPath THEN e ELSE NoEntry]

\* copyOneFile called on a source file; at the destination path there is
\* nothing, a file or a directory
InitRound ==
    /\ opt \in {o \in Options : o.recursive /\ ~o.mirror /\ ~o.checksum
                                 /\ o.excludes = <<>>}
    /\ src \in {OneEntry(f) : f \in Files}
    /\ dst \in {OneEntry(e) : e \in Files \cup {NoEntry, DirEnt}}
    /\ pc = "copyfile"
    /\ todo = <<>>
    /\ faulty = TRUE
    /\ ret = NoErr
    /\ req = NoReq
    /\ exitCode = Running
    /\ src0 = src
    /\ dst0 = dst
    /\ run = 1
    /\ dst1 = dst
    /\ acts = <<>>
    /\ touched = {}
    /\ firstFail = NoErr
    /\ afterFail = FALSE
    /\ injected = FALSE
    /\ visited = <<>>
    /\ probe = [fn |-> "roundtrip", done |-> FALSE, changed |-> FALSE,
                same |-> FALSE, sameSum |-> FALSE]

\* sameFile called on the source and the destination file, without and
\* with checksum mode, after the copy and again after the source changed
CompareStep ==
    /\ pc \in {"done", "modified"}
    /\ probe.fn = "roundtrip"
    /\ ret = NoErr
    /\ src[DotPath].kind = "file" /\ dst[DotPath].kind = "file"
    /\ probe' = [probe EXCEPT
                    !.done = TRUE,
                    !.changed = (pc = "modified"),
                    !.same = sameFile(src[DotPath], dst[DotPath],
                                      [opt EXCEPT !.checksum = FALSE]),
                    !.sameSum = sameFile(src[DotPath], dst[DotPath],
                                         [opt EXCEPT !.checksum = TRUE])]
    /\ pc' = IF pc = "done" THEN "compared" ELSE "recompared"
    /\ UNCHANGED <<opt, src, dst, todo, ret, req, exitCode, src0, dst0, run, dst1,
                   acts, touched, firstFail, afterFail, injected, faulty, visited>>

\* the source file is rewritten with a content of another size
ModifySource ==
    /\ pc = "compared"
    /\ \E f \in Files :
         /\ Size(f.content) # Size(src[DotPath].content)
         /\ src' = [src EXCEPT ![DotPath] = f]
    /\ pc' = "modified"
    /\ UNCHANGED <<opt, dst, todo, ret, req, exitCode, src0, dst0, run, dst1,
                   acts, touched, firstFail, afterFail, injected, faulty, probe,
                   visited>>

NextRound == CopyFileStep \/ CompareStep \/ ModifySource

\* names of directories: "s", "S", "s2", "d", "..s"
DirNames == {<<"s">>, <<"S">>, <<"s", "2">>, <<"d">>, <<".", ".", "s">>}

\* an absolute path (filepath.Abs's result) written from its segments
AbsPath(segs) == <<Sep>> \o JoinSegs(segs)

\* the paths isSubpath is called on, each with the segments of the
\* directory it names: every cleaned absolute path of up to MaxPathSegs
\* names, and three paths that are not clean
SubPaths ==
    {[path |-> AbsPath(segs), segs |-> segs] :
        segs \in UNION {[1..n -> DirNames] : n \in 0..MaxPathSegs}}
    \cup {[path |-> <<"/", "d", "/", ".", ".", "/", "s">>, segs |-> <<<<"s">>>>],
          [path |-> <<"/", "s", "/", ".", "/", "d">>, segs |-> <<<<"s">>, <<"d">>>>],
          [path |-> <<"/", "s", "/", "/", "S", "/">>, segs |-> <<<<"s">>, <<"S">>>>]}

\* a call of isSubpath and of samePath on two absolute paths
InitPath ==
    /\ opt \in {o \in Options : o.recursive /\ ~o.mirror /\ ~o.dryRun
                                 /\ ~o.checksum /\ o.excludes = <<>>}
    /\ probe \in [fn : {"isSubpath"}, done : {FALSE}, child : SubPaths,
                   parent : SubPaths, sub : {FALSE}, same : {FALSE}]
    /\ InitCall

\* the calls return
CallIsSubpath ==
    /\ pc = "call"
    /\ probe.fn = "isSubpath"
    /\ probe' = [probe EXCEPT
                    !.done = TRUE,
                    !.sub = isSubpath(probe.child.path, probe.parent.path),
                    !.same = samePath(probe.child.path, probe.parent.path)]
    /\ pc' = "returned"
    /\ UNCHANGED <<opt, src, dst, todo, ret, req, exitCode, src0, dst0, run, dst1,
                   acts, touched, firstFail, afterFail, injected, faulty, visited>>

NextPath == CallIsSubpath

Next == ForwardStep \/ MirrorStep

NextCmp == CallSameFile

NextTwice == ForwardStep \/ MirrorStep \/ Rerun

NextCp == CpParse \/ CpStat \/ CpValidate \/ CopyFileStep \/ ForwardStep
          \/ MirrorStep \/ CpReturn

\* one run of syncDir, reliable file system
Spec == Init /\ [][Next]_vars

\* two runs of syncDir, reliable file system
SpecTwice == Init /\ [][NextTwice]_vars

\* one run of syncDir, file system with I/O errors
SpecFault == InitFault /\ [][Next]_vars

\* the cp subcommand
SpecCp == InitCp /\ [][NextCp]_vars

\* calls of sameFile
SpecCmp == InitCmp /\ [][NextCmp]_vars

\* calls of shouldExclude
SpecExcl == InitExcl /\ [][NextExcl]_vars

\* calls of isSubpath and samePath
SpecPath == InitPath /\ [][NextPath]_vars

\* copyOneFile on a file, then sameFile on the two files
SpecRound == InitRound /\ [][NextRound]_vars

\* syncDir as a running program: one goroutine, which takes its next step
\* whenever it has one, on a file system that may fail any operation
SpecLive == InitLive /\ [][Next]_vars /\ WF_vars(Next)

-----------------------------------------------------------------------------
(* Properties. *)

Success == pc = "done" /\ ret = NoErr

\* p or a directory above it is excluded: the walk never reaches below an
\* excluded directory
Skipped(p) ==
    \E q \in (Ancestors(p) \cup {p}) \ {DotPath} : shouldExclude(q, opt.excludes)

Did(op) == \E i \in 1..Len(acts) : acts[i].op = op

\* C1 as stated: after a successful non-dry-run mirror run the relative
\* paths of DESTINATION that shouldExclude does not exclude are exactly
\* those of SOURCE that it does not exclude.
C1_MirrorEquivalenceByMatcher ==
    (Success /\ opt.mirror /\ ~opt.dryRun) =>
        {p \in RelPaths : Exists(dst, p) /\ ~shouldExclude(p, opt.excludes)}
        = {p \in RelPaths : Exists(src, p) /\ ~shouldExclude(p, opt.excludes)}

\* C1 amended: after a successful non-dry-run mirror run the relative paths
\* of DESTINATION that are neither excluded nor below an excluded directory
\* are exactly those of SOURCE that are neither excluded nor below one.
C1_MirrorEquivalence ==
    (Success /\ opt.mirror /\ ~opt.dryRun) =>
        {p \in RelPaths : Exists(dst, p) /\ ~Skipped(p)}
        = {p \in RelPaths : Exists(src, p) /\ ~Skipped(p)}

\* a successful mirror run that created a directory missing in DESTINATION
\* and deleted a file missing in SOURCE
C1_Witness ==
    /\ Success /\ opt.mirror /\ ~opt.dryRun
    /\ Did("MKDIR") /\ Did("DEL")
    /\ \E p \in RelPaths : dst0[p].kind = "file" /\ ~Exists(dst, p)

\* C2 as stated: no path that matches an exclude pattern is ever created,
\* overwritten or deleted in DESTINATION, recursive deletions included.
C2_ExclusionInvisible ==
    \A p \in touched : ~shouldExclude(p, opt.excludes)

\* C3 as stated: after a successful non-dry run every SOURCE file the walk
\* does not skip exists in DESTINATION as a file of identical size and
\* identical modification time, and of identical digest in checksum mode.
C3_CopyCompleteExact ==
    (Success /\ ~opt.dryRun) =>
        \A p \in RelPaths : (src[p].kind = "file" /\ ~Skipped(p)) =>
            /\ dst[p].kind = "file"
            /\ Size(dst[p].content) = Size(src[p].content)
            /\ dst[p].mtime = src[p].mtime
            /\ opt.checksum => sha1sum(dst[p].content) = sha1sum(src[p].content)

\* C3 amended: after a successful non-dry run every SOURCE file the walk
\* does not skip exists in DESTINATION as a file of identical size; without
\* checksum mode its modification time is within one second of the source's,
\* with checksum mode its digest is identical (and the modification time may
\* differ).
C3_CopyComplete ==
    (Success /\ ~opt.dryRun) =>
        \A p \in RelPaths : (src[p].kind = "file" /\ ~Skipped(p)) =>
            /\ dst[p].kind = "file"
            /\ Size(dst[p].content) = Size(src[p].content)
            /\ ~opt.checksum => absDuration(dst[p].mtime - src[p].mtime) <= Second
            /\ opt.checksum => sha1sum(dst[p].content) = sha1sum(src[p].content)

\* a successful run that copied a SOURCE file DESTINATION did not have
C3_Witness ==
    /\ Success /\ ~opt.dryRun /\ Did("COPY")
    /\ \E p \in RelPaths : /\ src[p].kind = "file" /\ ~Skipped(p)
                           /\ ~Exists(dst0, p)
                           /\ dst[p] = src[p]

\* C4 as stated: a non-dry-run mirror run that removed a DESTINATION
\* directory missing in SOURCE goes on and returns success.
C4_RemoveDirSucceeds ==
    (pc = "done" /\ opt.mirror /\ ~opt.dryRun /\ Did("RMDIR")) => ret = NoErr

\* C5: in a dry run no step changes the SOURCE or the DESTINATION tree,
\* however the run ends.
C5_DryRunChangesNothing ==
    opt.dryRun => (src = src0 /\ dst = dst0 /\ touched = {})

\* a dry run that reported a creation, a copy and a deletion, and one that
\* ended in an error
C5_Witness ==
    /\ opt.dryRun /\ pc = "done"
    /\ Did("MKDIR") /\ Did("COPY") /\ (Did("RMDIR") \/ Did("DEL"))
    /\ ret # NoErr

\* C6: a second non-dry run without mirror, right after a successful first
\* one, copies no file and leaves DESTINATION as the first run left it.
C6_SecondRunIdle ==
    (run = 2 /\ ~opt.dryRun /\ ~opt.mirror) => (~Did("COPY") /\ dst = dst1)

\* the second run has ended after a first run that copied a file and kept
\* another whose modification time differs from the source's
C6_Witness ==
    /\ run = 2 /\ pc = "done" /\ ~opt.dryRun /\ ~opt.mirror
    /\ \E p \in RelPaths : src[p].kind = "file" /\ dst0[p] # dst1[p]
                           /\ dst1[p] = src[p]

\* C7 as stated: once a filesystem operation has failed the run is over:
\* nothing is changed afterwards and syncDir returns that very error.
C7_FirstFailureWins ==
    firstFail # NoErr => (pc = "done" /\ ret = firstFail /\ ~afterFail)

\* the location a path of CpPaths names on a case-insensitive file system:
\* its segments in lower case
Location(path) ==
    CASE path = <<"/", "s">> -> <<"s">>
      [] path = <<"/", "S", "/", "d">> -> <<"s", "d">>
      [] path = <<"/", "s", "2">> -> <<"s2">>
      [] path = <<"/", "d", "/", ".", ".", "/", "s">> -> <<"s">>

\* location a is strictly below location b
Below(a, b) == Len(b) < Len(a) /\ SubSeq(a, 1, Len(b)) = b

Related(a, b) == a = b \/ Below(a, b) \/ Below(b, a)

\* C8: a cp request whose SOURCE and DESTINATION are the same location, or
\* one strictly inside the other, ends as a usage error and the sync engine
\* is never invoked.
C8_SafetyRails ==
    (req.absSrc # <<>> /\ Related(Location(req.absSrc), Location(req.absDst))) =>
        /\ pc = "exited"
        /\ exitCode = exitUsage
        /\ acts = <<>> /\ dst = dst0

\* rejected: SOURCE below DESTINATION, the two differing in case
C8_Witness ==
    /\ req.absSrc = <<"/", "S", "/", "d">> /\ req.absDst = <<"/", "s">>
    /\ pc = "exited" /\ exitCode = exitUsage
    /\ src[DotPath].kind = "dir" /\ Exists(src, PathT) /\ ~Exists(dst, DotPath)

\* C9: a run of cp that ends with the usage exit code has created, copied
\* and deleted nothing.
C9_UsageErrorNoEffect ==
    exitCode = exitUsage =>
        (src = src0 /\ dst = dst0 /\ acts = <<>> /\ touched = {})

\* a usage error found by the last check, on trees a run would have changed
C9_Witness ==
    /\ exitCode = exitUsage /\ req.absSrc # <<>> /\ ~opt.dryRun
    /\ src[DotPath].kind = "dir" /\ Exists(src, PathTG) /\ ~Exists(dst, PathT)

\* C10: in checksum mode sameFile returns true exactly when the two digests
\* are equal, whatever the sizes and modification times.
C10_ChecksumDecides ==
    (probe.fn = "sameFile" /\ probe.done /\ opt.checksum) =>
        (probe.same <=> sha1sum(probe.si.content) = sha1sum(probe.di.content))

\* equal digests with modification times further apart than the tolerance
C10_Witness ==
    /\ probe.fn = "sameFile" /\ probe.done /\ opt.checksum /\ probe.same
    /\ absDuration(probe.si.mtime - probe.di.mtime) > Second

\* C11: without checksum mode sameFile returns true exactly when the sizes
\* are equal and the modification times are at most one second apart, in
\* either direction: exactly one second is equivalent, more is not.
C11_ToleranceBoundary ==
    (probe.fn = "sameFile" /\ probe.done /\ ~opt.checksum) =>
        (probe.same <=>
            /\ Size(probe.si.content) = Size(probe.di.content)
            /\ probe.si.mtime - probe.di.mtime \in (0 - Second)..Second)

\* judged equivalent: equal sizes, different contents, the destination
\* exactly one second older than the source
C11_Witness ==
    /\ probe.fn = "sameFile" /\ probe.done /\ ~opt.checksum /\ probe.same
    /\ probe.si.mtime - probe.di.mtime = Second
    /\ probe.si.content # probe.di.content

\* a pattern without glob metacharacter and without path separator
IsPlainName(pat) ==
    \A i \in 1..Len(pat) : pat[i] \notin {"*", "?", "[", "\\", Sep}

HasGlob(pat) == \E i \in 1..Len(pat) : pat[i] \in {"*", "?", "[", "\\"}

LastExcl == probe.excl[Len(probe.segs)]

\* C12: for a plain-name pattern shouldExclude returns true for a relative
\* path exactly when one of the path's segments equals the name (leading,
\* interior or final); a name that is only a part of a segment does not count.
C12_PlainNameSegments ==
    (probe.fn = "shouldExclude" /\ probe.done /\ IsPlainName(opt.excludes[1])) =>
        (LastExcl <=> \E i \in 1..Len(probe.segs) : probe.segs[i] = opt.excludes[1])

\* pattern ".g", path "x/.gi/x": the name is only part of a segment, not
\* excluded
C12_Witness ==
    /\ probe.fn = "shouldExclude" /\ probe.done /\ opt.excludes = <<PatG>>
    /\ probe.segs = <<PatX, <<".", "g", "i">>, PatX>>
    /\ ~LastExcl

\* C13: right after a successful non-dry-run copyOneFile the destination
\* has the source's content, size and modification time and sameFile is
\* true without and with checksum mode; once the source's content and size
\* have changed sameFile is false in both modes.
C13_CopyCompareRoundTrip ==
    (probe.fn = "roundtrip" /\ probe.done /\ ~opt.dryRun) =>
        IF ~probe.changed
        THEN /\ pc = "compared" => (/\ dst[DotPath].content = src[DotPath].content
                                    /\ dst[DotPath].mtime = src[DotPath].mtime)
             /\ probe.same /\ probe.sameSum
        ELSE ~probe.same /\ ~probe.sameSum

\* compared again after the source changed; the copy had replaced a
\* destination file of another content
C13_Witness ==
    /\ probe.fn = "roundtrip" /\ probe.done /\ ~opt.dryRun /\ probe.changed
    /\ pc = "recompared"
    /\ dst0[DotPath].kind = "file" /\ dst0[DotPath].content # src0[DotPath].content
    /\ dst[DotPath] = src0[DotPath]
    /\ src[DotPath].mtime = src0[DotPath].mtime

\* a name without regard to case
FoldName(n) == IF n = <<"S">> THEN <<"s">> ELSE n

FoldSegs(segs) == [i \in 1..Len(segs) |-> FoldName(segs[i])]

\* C14: isSubpath(child, parent) is true exactly when the parent's segments
\* are a strict prefix of the child's, case ignored, on cleaned paths;
\* siblings that share a name prefix are not nested and a path is not a
\* subpath of itself.
C14_SubpathIsSegmentPrefix ==
    (probe.fn = "isSubpath" /\ probe.done) =>
        (probe.sub <=> Below(FoldSegs(probe.child.segs), FoldSegs(probe.parent.segs)))

\* /s2/d against /S: the names share a prefix, not nested
C14_Witness ==
    /\ probe.fn = "isSubpath" /\ probe.done /\ ~probe.sub
    /\ probe.child.path = <<"/", "s", "2", "/", "d">>
    /\ probe.parent.path = <<"/", "S">>

\* C15 as stated: once the mirror pass has removed a DESTINATION directory,
\* or reported its removal in a dry run, it neither visits nor reports nor
\* acts on anything below that directory.
C15_NoDescentAfterDelete ==
    \A i \in 1..Len(acts) : acts[i].op = "RMDIR" =>
        /\ \A j \in (i + 1)..Len(acts) : ~InSubtree(acts[i].path, acts[j].path)
        /\ \A k \in 1..Len(todo) : ~InSubtree(acts[i].path, todo[k])

\* C16: the mirror pass deletes, or reports the deletion of, a DESTINATION
\* entry only when SOURCE has no entry at the same relative path; an entry
\* whose path exists in SOURCE stays even when one is a file and the other
\* a directory.
C16_DeleteOnlyIfAbsentInSource ==
    /\ \A i \in 1..Len(acts) :
          acts[i].op \in {"DEL", "RMDIR"} => ~Exists(src, acts[i].path)
    /\ \A p \in RelPaths : (Exists(src, p) /\ Exists(dst0, p)) => Exists(dst, p)

\* a finished mirror dry run that reported a removal and passed over a
\* DESTINATION directory whose path is a file in SOURCE
C16_Witness ==
    /\ pc = "done" /\ ret = NoErr /\ opt.mirror /\ Did("RMDIR")
    /\ \E p \in RelPaths : src[p].kind = "file" /\ dst[p].kind = "dir"

\* C17: when os.Lstat of the SOURCE path fails in the mirror pass with an
\* error other than "does not exist", the probed DESTINATION entry is not
\* deleted, the run ends there and syncDir returns that error; a deletion
\* is only made or reported for an entry SOURCE does not have.
C17_ProbeErrorAborts ==
    /\ (ret.op = "lstat" /\ ret.path # DotPath) =>
          /\ pc = "done"
          /\ Exists(dst, ret.path)
          /\ \A i \in 1..Len(acts) :
                acts[i].op \in {"DEL", "RMDIR"} => acts[i].path # ret.path
    /\ (firstFail.op = "lstat" /\ firstFail.path # DotPath) =>
          (pc = "done" /\ ret = firstFail /\ ~afterFail)
    /\ \A i \in 1..Len(acts) :
          acts[i].op \in {"DEL", "RMDIR"} =>
              StatOf(src, acts[i].path, FALSE) = "notexist"

\* a real mirror run stopped by an I/O error of the probe after it had
\* deleted another entry; the probed entry is absent from SOURCE
C17_Witness ==
    /\ pc = "done" /\ ret.op = "lstat" /\ ret.path # DotPath
    /\ opt.mirror /\ ~opt.dryRun /\ injected
    /\ Did("DEL")
    /\ ~Exists(src, ret.path)

IsDelete(a) == a.op \in {"DEL", "RMDIR"}

\* C18: the mirror pass starts only after the copy pass has gone through
\* the whole SOURCE tree: no deletion is made or reported during the copy
\* pass, no directory creation or file copy follows a deletion, and when
\* the mirror pass of a real run is under way every SOURCE entry the walk
\* does not skip is in DESTINATION.
C18_PassOrdering ==
    /\ pc = "forward" => \A i \in 1..Len(acts) : ~IsDelete(acts[i])
    /\ \A i \in 1..Len(acts) : IsDelete(acts[i]) =>
          \A j \in (i + 1)..Len(acts) : IsDelete(acts[j])
    /\ (pc = "mirror" /\ ~opt.dryRun) =>
          \A p \in RelPaths : (Exists(src, p) /\ ~Skipped(p)) => Exists(dst, p)

\* a real run in its mirror pass: the copy pass created a directory that
\* DESTINATION lacked, the mirror pass has deleted a file and goes on
C18_Witness ==
    /\ pc = "mirror" /\ ~opt.dryRun
    /\ Did("MKDIR") /\ Did("DEL")
    /\ \E p \in RelPaths : Exists(src, p) /\ ~Exists(dst0, p) /\ Exists(dst, p)

\* C19: the DESTINATION root is never deleted: no deletion of the root is
\* ever made or reported, a root that exists keeps existing, and after a
\* successful real run the root is a directory.
C19_RootNeverDeleted ==
    /\ \A i \in 1..Len(acts) : IsDelete(acts[i]) => acts[i].path # DotPath
    /\ Exists(dst0, DotPath) => Exists(dst, DotPath)
    /\ (Success /\ ~opt.dryRun) => dst[DotPath].kind = "dir"

\* a successful real mirror run on a DESTINATION that did not exist and an
\* empty SOURCE: the root was created and the mirror pass walked it
C19_Witness ==
    /\ Success /\ ~opt.dryRun /\ opt.mirror
    /\ ~Exists(dst0, DotPath) /\ dst[DotPath].kind = "dir"
    /\ \A p \in RelPaths : ~Exists(src, p)

\* C20 as stated: whenever shouldExclude excludes a directory's relative
\* path it excludes every path below it, for every kind of pattern.
C20_ExclusionClosedUnderDescent ==
    (probe.fn = "shouldExclude" /\ probe.done) =>
        \A k \in 1..Len(probe.segs) : probe.excl[k] => LastExcl

\* C20 amended: for a pattern without glob metacharacter (a plain name or a
\* path of several segments), whenever shouldExclude excludes a directory's
\* relative path it excludes every path below it.
C20_LiteralExclusionClosedUnderDescent ==
    (probe.fn = "shouldExclude" /\ probe.done /\ ~HasGlob(opt.excludes[1])) =>
        \A k \in 1..Len(probe.segs) : probe.excl[k] => LastExcl

\* pattern "x/.g", path "x/.g/b.t": the directory x/.g is excluded, x is
\* not, and so is the path below it
C20_Witness ==
    /\ probe.fn = "shouldExclude" /\ probe.done /\ opt.excludes = <<PatXG>>
    /\ probe.segs = <<PatX, PatG, PathT>>
    /\ ~probe.excl[1] /\ probe.excl[2] /\ LastExcl

\* C21: a run without mirror mode deletes nothing: the mirror pass is never
\* entered, no deletion is made or reported, and every DESTINATION entry
\* whose relative path SOURCE does not have stays as it was.
C21_NoDeleteWithoutMirror ==
    ~opt.mirror =>
        /\ pc # "mirror"
        /\ \A i \in 1..Len(acts) : ~IsDelete(acts[i])
        /\ \A p \in RelPaths : (Exists(dst0, p) /\ ~Exists(src, p)) => dst[p] = dst0[p]

\* a successful real run without mirror that created a directory and left
\* alone a DESTINATION file SOURCE does not have
C21_Witness ==
    /\ Success /\ ~opt.mirror /\ ~opt.dryRun /\ Did("MKDIR")
    /\ \E p \in RelPaths : dst0[p].kind = "file" /\ ~Exists(src, p) /\ dst[p] = dst0[p]

\* C22 as stated: a dry run on a DESTINATION that does not exist yet
\* reports the planned creation and copies and returns success, also with
\* mirror enabled.
C22_DryRunAbsentDestination ==
    (pc = "done" /\ opt.dryRun /\ ~Exists(dst0, DotPath)) =>
        (ret = NoErr /\ Did("MKDIR"))


\* the entries pass ps of this run has called its callback on, in order
VisitsOf(ps) == SelectSeq(visited, LAMBDA v : v.pass = ps)

\* no pass has called its callback twice on one entry, and none has made or
\* reported two actions on one entry
OncePerEntry ==
    /\ \A i, j \in 1..Len(visited) : visited[i] = visited[j] => i = j
    /\ \A i, j \in 1..Len(acts) :
           (acts[i].path = acts[j].path /\ IsDelete(acts[i]) = IsDelete(acts[j]))
               => i = j

\* the copy pass walks SOURCE as it was when the run began: SOURCE is never
\* changed, and every entry the pass visits was in it from the start
CopyPassWalksSource ==
    /\ src = src0
    /\ \A i \in 1..Len(visited) :
           visited[i].pass = "forward" => Exists(src0, visited[i].path)

\* the mirror pass walks DESTINATION: every entry it visits other than the
\* root was in DESTINATION when the run began or was put there, or reported,
\* by the copy pass
MirrorPassWalksDestination ==
    \A i \in 1..Len(visited) :
        (visited[i].pass = "mirror" /\ visited[i].path # DotPath) =>
            \/ Exists(dst0, visited[i].path)
            \/ \E k \in 1..Len(acts) :
                   ~IsDelete(acts[k]) /\ acts[k].path = visited[i].path

\* C23: on two separate trees nobody else changes, every run of syncDir
\* comes to its end and stays there, with success or with an error; until
\* then each pass has visited and acted on each entry at most once, the copy
\* pass only on entries SOURCE had when the run began, SOURCE being left as
\* it was, and the mirror pass only on entries of DESTINATION.
C23_Termination ==
    /\ <>[](pc = "done" /\ todo = <<>>)
    /\ [](OncePerEntry /\ CopyPassWalksSource /\ MirrorPassWalksDestination)

\* a real mirror run that ended well after the copy pass visited at least
\* three entries of SOURCE and created one in DESTINATION, and the mirror
\* pass visited at least three entries, the created one among them
C23_Witness ==
    /\ Success /\ opt.mirror /\ ~opt.dryRun
    /\ Len(VisitsOf("forward")) >= 3
    /\ Len(VisitsOf("mirror")) >= 3
    /\ \E i \in 1..Len(visited) :
           /\ visited[i].pass = "mirror"
           /\ ~Exists(dst0, visited[i].path)
           /\ Exists(dst, visited[i].path)

====
